---- MODULE Spec2Model ----
(***************************************************************************)
(* WinEnhanceMouse: the interaction engine (engine.py) driving the menu    *)
(* overlay (gui/menu_overlay.py) and Action Dispatch (actions/registry.py).*)
(* One action per input event delivered to the engine's listener           *)
(* callbacks; every action models the whole callback.                      *)
(***************************************************************************)
EXTENDS Integers, Sequences, FiniteSets, TLC

(***************************************************************************)
(* Bounds of the model.                                                    *)
(***************************************************************************)
\* longest primary / secondary list of a configured mode
MaxBindings == 1
\* most bindings the two execution queues hold together
MaxQueued == 3
\* the clock advances at most MaxTicks double-click windows past StartClock
MaxTicks == 2
\* time.time() when the engine is constructed, in ms (an epoch time, far above 0)
StartClock == 1000
\* most bindings selected in a behaviour with a settings session
MaxSelected == 1
\* longest primary / secondary list of a mode where the overlay is studied
MaxShown == 2
\* most callbacks waiting on the surface thread
MaxPending == 4
\* scroll events counted in one direction beyond the opposite one
MaxScrolls == 4

(***************************************************************************)
(* Program constants.                                                      *)
(***************************************************************************)
\* engine.py:109  now - self._last_left_click < 0.35   (milliseconds here)
DoubleClickWindow == 350

\* action identifiers a binding of the configuration may carry: "copy" is
\* registered (registry.py:437), "bogus" is an identifier no handler is
\* registered for (config.json and the settings editor accept any string)
Ids == {"copy", "bogus"}
Registered == {"copy"}

\* None
NoBinding == "None"

\* time steps between events: inside the window (twice is outside), and the
\* window itself
Gaps == {DoubleClickWindow \div 2, DoubleClickWindow}
MaxClock == StartClock + MaxTicks * DoubleClickWindow

\* sequences over S of length at most n
SeqUpTo(S, n) == UNION {[1..k -> S] : k \in 0..n}

\* config.py ModeConfig: two ordered binding lists (a binding is its id)
ModeConfig == [primary_queue : SeqUpTo(Ids, MaxBindings),
               secondary_queue : SeqUpTo(Ids, MaxBindings)]

\* config.py AppConfig.modes as _parse_config can return it: no mode or one
Configs == {<<>>} \cup {<<m>> : m \in ModeConfig}

VARIABLES
    modes,            \* Engine._config.modes
    menu_active,      \* Engine._menu_active
    primary_queue,    \* Engine._primary_queue
    secondary_queue,  \* Engine._secondary_queue
    last_left_click,  \* Engine._last_left_click (ms)
    items,            \* MenuOverlay._items
    focus_index,      \* MenuOverlay._focus_index (0-based)
    visible,          \* MenuOverlay._visible
    root,             \* MenuOverlay._root is not None
    clock,            \* time.time() (ms)
    event,            \* the event handled last
    executed,         \* registry.execute calls made while handling that event
    crashed,          \* an exception left a listener callback
    prev_left_at,     \* <<t>>: _handle_left_click last ran at t; <<>>: never
    settings_open,    \* Engine._settings_open
    thread,           \* MenuOverlay._thread: "none", "starting", "mainloop", "failed"
    opening,          \* the mouse listener is inside MenuOverlay._spawn_window
    settings_windows, \* SettingsWindow objects being shown
    menu,             \* Engine._config.menu
    appearance,       \* MenuOverlay.appearance
    manager,          \* ConfigManager._config: its modes and menu
    actions,          \* ActionRegistry._actions: identifier -> handler
    pending,          \* callbacks scheduled on the surface thread, not yet run
    shown,            \* the surface is on screen (deiconified, not withdrawn)
    handling,         \* the click _on_click has let through, handler not yet run
    scrolled          \* focus_next less focus_prev calls since the last open

vars == <<modes, menu_active, primary_queue, secondary_queue, last_left_click,
          items, focus_index, visible, root, clock, event, executed, crashed,
          prev_left_at, settings_open, thread, opening, settings_windows,
          menu, appearance, manager, actions, pending, shown, handling,
          scrolled>>

engine_vars == <<menu_active, primary_queue, secondary_queue, last_left_click>>
overlay_vars == <<items, focus_index, visible, root, thread>>
config_vars == <<menu, appearance, manager>>
surface_vars == <<pending, shown>>
\* what only the finer-grained specifications below change
other_vars == <<actions, surface_vars, handling, scrolled>>

\* the handlers registered when actions/registry.py is imported
BuiltinActions == [id \in Registered |-> id]

\* the state after Engine.__init__ with one of the given configurations
\* and the given registry
InitFrom(configs, registered) ==
    /\ modes \in configs
    /\ menu_active = FALSE
    /\ primary_queue = <<>>
    /\ secondary_queue = <<>>
    /\ last_left_click = 0
    /\ items = <<>>
    /\ focus_index = 0
    /\ visible = FALSE
    /\ root = FALSE
    /\ clock = StartClock
    /\ event = "none"
    /\ executed = <<>>
    /\ crashed = FALSE
    /\ prev_left_at = <<>>
    /\ settings_open = FALSE
    /\ thread = "none"
    /\ opening = FALSE
    /\ settings_windows = 0
    /\ menu = "initial"
    /\ appearance = "initial"
    /\ manager = [modes |-> modes, menu |-> "initial"]
    /\ actions = registered
    /\ pending = <<>>
    /\ shown = FALSE
    /\ handling = "none"
    /\ scrolled = 0

InitWith(configs) == InitFrom(configs, BuiltinActions)

Init == InitWith(Configs)

(***************************************************************************)
(* Helpers.                                                                *)
(***************************************************************************)
Min(a, b) == IF a < b THEN a ELSE b
Max(a, b) == IF a > b THEN a ELSE b

IsPrefix(s, t) == Len(s) <= Len(t) /\ SubSeq(t, 1, Len(s)) = s

\* list.pop(): the list without its last element
Pop(q) == SubSeq(q, 1, Len(q) - 1)

MenuItem(b, level) == [binding |-> b, queue_level |-> level]

\* mutant of MenuItems: the secondary bindings come first
MenuItemsSecondaryFirst(mode) ==
    [i \in 1..Len(mode.secondary_queue) |-> MenuItem(mode.secondary_queue[i], 2)]
    \o [i \in 1..Len(mode.primary_queue) |-> MenuItem(mode.primary_queue[i], 1)]

\* engine.py:97-101  primary bindings tagged 1, then secondary tagged 2
MenuItems(mode) ==
    [i \in 1..Len(mode.primary_queue) |-> MenuItem(mode.primary_queue[i], 1)]
    \o [i \in 1..Len(mode.secondary_queue) |-> MenuItem(mode.secondary_queue[i], 2)]

\* Engine._current_mode raises when no mode is configured
NoModes == modes = <<>>
\* Engine._current_mode_index is 0 for the life of the engine
CurrentMode == modes[1]

\* mutant of CurrentFocusBinding: the focus index is ignored
CurrentFocusBindingFirst ==
    LET all_items == CurrentMode.primary_queue \o CurrentMode.secondary_queue
    IN IF all_items = <<>> THEN NoBinding ELSE all_items[1]

\* Engine._current_focus_binding
CurrentFocusBinding ==
    LET all_items == CurrentMode.primary_queue \o CurrentMode.secondary_queue
        index == Max(0, Min(Len(all_items) - 1, focus_index))
    IN IF all_items = <<>> THEN NoBinding ELSE all_items[index + 1]

(***************************************************************************)
(* Overlay Surface Controller (gui/menu_overlay.py).                       *)
(***************************************************************************)
\* MenuOverlay.open: the surface and its thread are created on the first
\* open (here the creation succeeds; OpenBegin below splits it)
OverlayOpen(new_items) ==
    /\ items' = new_items
    /\ focus_index' = 0
    /\ root' = TRUE
    /\ thread' = "mainloop"
    /\ visible' = TRUE

\* mutant of OverlayClose: the close destroys the surface and its thread
OverlayCloseDestroying ==
    /\ visible' = FALSE
    /\ root' = FALSE
    /\ thread' = "none"
    /\ UNCHANGED <<items, focus_index>>

\* MenuOverlay.close: hides the surface, keeps it and the items
OverlayClose ==
    /\ visible' = FALSE
    /\ UNCHANGED <<items, focus_index, root, thread>>

\* mutant of NextFocusIndex: the index stops at the last item
NextFocusIndexNoWrap(index, n) ==
    IF n = 0 THEN index ELSE IF index + 1 > n - 1 THEN n - 1 ELSE index + 1

\* MenuOverlay.focus_next, the index it leaves: n is len(self._items)
NextFocusIndex(index, n) == IF n = 0 THEN index ELSE (index + 1) % n

\* mutant of PrevFocusIndex: the index stops at the first item
PrevFocusIndexNoWrap(index, n) ==
    IF n = 0 THEN index ELSE IF index - 1 < 0 THEN 0 ELSE index - 1

\* MenuOverlay.focus_prev, the index it leaves
PrevFocusIndex(index, n) == IF n = 0 THEN index ELSE (index - 1) % n

\* MenuOverlay.focus_next
FocusNext ==
    /\ focus_index' = NextFocusIndex(focus_index, Len(items))
    /\ UNCHANGED <<items, visible, root, thread>>

\* MenuOverlay.focus_prev
FocusPrev ==
    /\ focus_index' = PrevFocusIndex(focus_index, Len(items))
    /\ UNCHANGED <<items, visible, root, thread>>

(***************************************************************************)
(* Action Dispatch (actions/registry.py).                                  *)
(***************************************************************************)
\* ActionRegistry.execute raises for an unknown identifier and passes a
\* handler's own failure on; faulty: the registered handlers that fail
ExecuteRaises(id, faulty) == id \notin Registered \/ id \in faulty

\* mutant of ExecuteEach: every binding is dispatched twice
RECURSIVE ExecuteEachTwice(_, _)
ExecuteEachTwice(bindings, faulty) ==
    IF bindings = <<>> THEN [calls |-> <<>>, raised |-> FALSE]
    ELSE IF ExecuteRaises(Head(bindings), faulty)
         THEN [calls |-> <<Head(bindings)>>, raised |-> TRUE]
         ELSE LET rest == ExecuteEachTwice(Tail(bindings), faulty)
              IN [calls |-> <<Head(bindings), Head(bindings)>> \o rest.calls,
                  raised |-> rest.raised]

\* a for loop of registry.execute calls over bindings: the calls made, in
\* order, and whether one raised (the loop ends at the first that does)
RECURSIVE ExecuteEach(_, _)
ExecuteEach(bindings, faulty) ==
    IF bindings = <<>> THEN [calls |-> <<>>, raised |-> FALSE]
    ELSE IF ExecuteRaises(Head(bindings), faulty)
         THEN [calls |-> <<Head(bindings)>>, raised |-> TRUE]
         ELSE LET rest == ExecuteEach(Tail(bindings), faulty)
              IN [calls |-> <<Head(bindings)>> \o rest.calls,
                  raised |-> rest.raised]

\* mutant of ExecuteLoops: the secondary loop runs first
ExecuteLoopsSecondaryFirst(primary, secondary, faulty) ==
    LET first == ExecuteEach(secondary, faulty)
        second == ExecuteEach(primary, faulty)
    IN IF first.raised THEN first
       ELSE [calls |-> first.calls \o second.calls, raised |-> second.raised]

\* Engine._execute_queues, lines 150-153: the primary loop, then the
\* secondary loop unless the primary loop raised
ExecuteLoops(primary, secondary, faulty) ==
    LET first == ExecuteEach(primary, faulty)
        second == ExecuteEach(secondary, faulty)
    IN IF first.raised THEN first
       ELSE [calls |-> first.calls \o second.calls, raised |-> second.raised]

(***************************************************************************)
(* Interaction Engine (engine.py).                                         *)
(***************************************************************************)
\* mutant of CloseMenu: the close also clears the queues
CloseMenuClearing ==
    /\ OverlayClose
    /\ menu_active' = FALSE
    /\ primary_queue' = <<>>
    /\ secondary_queue' = <<>>
    /\ UNCHANGED crashed

\* mutant of CloseMenu: self._overlay.close() is missing
CloseMenuLeavingOverlay ==
    /\ menu_active' = FALSE
    /\ UNCHANGED <<overlay_vars, primary_queue, secondary_queue, crashed>>

\* the close branches of Engine._toggle_menu (lines 86-94)
CloseMenu ==
    /\ OverlayClose
    /\ menu_active' = FALSE
    /\ UNCHANGED <<primary_queue, secondary_queue, crashed>>

\* mutant of OpenMenu: self._secondary_queue.clear() is missing
OpenMenuKeepingSecondary ==
    IF NoModes
    THEN /\ crashed' = TRUE
         /\ UNCHANGED <<menu_active, primary_queue, secondary_queue, overlay_vars>>
    ELSE /\ OverlayOpen(MenuItems(CurrentMode))
         /\ primary_queue' = <<>>
         /\ UNCHANGED secondary_queue
         /\ menu_active' = TRUE
         /\ UNCHANGED crashed

\* mutant of OpenMenu: the queues are cleared before the mode is read
OpenMenuClearingFirst ==
    IF NoModes
    THEN /\ crashed' = TRUE
         /\ primary_queue' = <<>>
         /\ secondary_queue' = <<>>
         /\ UNCHANGED <<menu_active, overlay_vars>>
    ELSE /\ OverlayOpen(MenuItems(CurrentMode))
         /\ primary_queue' = <<>>
         /\ secondary_queue' = <<>>
         /\ menu_active' = TRUE
         /\ UNCHANGED crashed

\* the open branch of Engine._toggle_menu (lines 95-105)
OpenMenu ==
    IF NoModes
    THEN /\ crashed' = TRUE
         /\ UNCHANGED <<menu_active, primary_queue, secondary_queue, overlay_vars>>
    ELSE /\ OverlayOpen(MenuItems(CurrentMode))
         /\ primary_queue' = <<>>
         /\ secondary_queue' = <<>>
         /\ menu_active' = TRUE
         /\ UNCHANGED crashed

\* Engine._toggle_menu
ToggleMenu(force_close) ==
    IF (menu_active /\ ~force_close) \/ force_close THEN CloseMenu ELSE OpenMenu

\* mutant of IsDoubleClick: <= for <
IsDoubleClickInclusive(now, last) == now - last <= DoubleClickWindow

\* now - self._last_left_click < 0.35
IsDoubleClick(now, last) == now - last < DoubleClickWindow

\* mutant of StampLeftClick: a double click keeps the timestamp of the click
\* that started the run
StampLeftClickRunStart(now, last) ==
    IF now - last < DoubleClickWindow THEN last ELSE now

\* self._last_left_click = now
StampLeftClick(now, last) == now

\* Engine._handle_left_click
HandleLeftClick ==
    LET now == clock
        double_click == IsDoubleClick(now, last_left_click)
    IN /\ last_left_click' = StampLeftClick(now, last_left_click)
       /\ IF NoModes
          THEN /\ crashed' = TRUE
               /\ UNCHANGED <<primary_queue, secondary_queue>>
          ELSE LET focused == CurrentFocusBinding
               IN /\ UNCHANGED crashed
                  /\ IF focused = NoBinding
                     THEN UNCHANGED <<primary_queue, secondary_queue>>
                     ELSE IF double_click
                          THEN /\ secondary_queue' = Append(secondary_queue, focused)
                               /\ UNCHANGED primary_queue
                          ELSE /\ primary_queue' = Append(primary_queue, focused)
                               /\ UNCHANGED secondary_queue
       /\ UNCHANGED <<menu_active, overlay_vars>>

\* mutant of HandleSelect: the queue is chosen by the double-click timing
HandleSelectByTiming(item) ==
    /\ IF IsDoubleClick(clock, last_left_click)
       THEN /\ secondary_queue' = Append(secondary_queue, item.binding)
            /\ UNCHANGED primary_queue
       ELSE /\ primary_queue' = Append(primary_queue, item.binding)
            /\ UNCHANGED secondary_queue
    /\ UNCHANGED <<menu_active, last_left_click>>

\* Engine._handle_select
HandleSelect(item) ==
    /\ IF item.queue_level = 1
       THEN /\ primary_queue' = Append(primary_queue, item.binding)
            /\ UNCHANGED secondary_queue
       ELSE /\ secondary_queue' = Append(secondary_queue, item.binding)
            /\ UNCHANGED primary_queue
    /\ UNCHANGED <<menu_active, last_left_click>>

\* mutant of HandleRightClick: the secondary queue is checked first
HandleRightClickSecondaryFirst ==
    IF secondary_queue # <<>>
    THEN /\ secondary_queue' = Pop(secondary_queue)
         /\ UNCHANGED <<primary_queue, menu_active, overlay_vars, crashed>>
    ELSE IF primary_queue # <<>>
         THEN /\ primary_queue' = Pop(primary_queue)
              /\ UNCHANGED <<secondary_queue, menu_active, overlay_vars, crashed>>
         ELSE ToggleMenu(TRUE)

\* Engine._handle_right_click
HandleRightClick ==
    IF primary_queue # <<>>
    THEN /\ primary_queue' = Pop(primary_queue)
         /\ UNCHANGED <<secondary_queue, menu_active, overlay_vars, crashed>>
    ELSE IF secondary_queue # <<>>
         THEN /\ secondary_queue' = Pop(secondary_queue)
              /\ UNCHANGED <<primary_queue, menu_active, overlay_vars, crashed>>
         ELSE ToggleMenu(TRUE)

\* mutant of ExecuteQueues: the queues are cleared once they have run
ExecuteQueuesClearing(faulty) ==
    LET run == ExecuteLoops(primary_queue, secondary_queue, faulty)
    IN /\ executed' = run.calls
       /\ IF run.raised
          THEN /\ crashed' = TRUE
               /\ UNCHANGED <<menu_active, primary_queue, secondary_queue,
                              overlay_vars>>
          ELSE /\ OverlayClose
               /\ menu_active' = FALSE
               /\ primary_queue' = <<>>
               /\ secondary_queue' = <<>>
               /\ UNCHANGED crashed

\* Engine._execute_queues: an exception of registry.execute leaves the
\* method before the forced close
ExecuteQueues(faulty) ==
    LET run == ExecuteLoops(primary_queue, secondary_queue, faulty)
    IN /\ executed' = run.calls
       /\ IF run.raised
          THEN /\ crashed' = TRUE
               /\ UNCHANGED <<menu_active, primary_queue, secondary_queue,
                              overlay_vars>>
          ELSE ToggleMenu(TRUE)

(***************************************************************************)
(* Input events: pynput calls _on_click, _on_scroll and _on_key_press.     *)
(* A callback that raises ends its listener and, through Engine.start's    *)
(* join, the process (app.py main): no event is handled after it.          *)
(***************************************************************************)
\* what an event leaves alone besides the state its handler writes
Delivered(kind) ==
    /\ ~crashed
    /\ event' = kind
    /\ UNCHANGED <<modes, clock, settings_open, opening, settings_windows,
                   config_vars, other_vars>>

\* the event is dropped by its callback's guard: nothing is written
Ignored ==
    /\ executed' = <<>>
    /\ UNCHANGED <<engine_vars, overlay_vars, crashed, prev_left_at>>

\* time passes
Tick(d) ==
    /\ ~crashed
    /\ clock + d <= MaxClock
    /\ clock' = clock + d
    /\ event' = "tick"
    /\ executed' = <<>>
    /\ UNCHANGED <<modes, engine_vars, overlay_vars, crashed, prev_left_at,
                   settings_open, opening, settings_windows, config_vars,
                   other_vars>>

\* _on_click, button middle: the trigger
MiddleClick ==
    /\ Delivered("middle")
    /\ ToggleMenu(FALSE)
    /\ executed' = <<>>
    /\ UNCHANGED <<last_left_click, prev_left_at>>

\* mutant of LeftClick: the guard on self._menu_active is missing
LeftClickUnguarded ==
    /\ Delivered("left")
    /\ Len(primary_queue) + Len(secondary_queue) < MaxQueued
    /\ HandleLeftClick
    /\ prev_left_at' = <<clock>>
    /\ executed' = <<>>

\* mutant of LeftClick: the click is stamped before the guard on
\* self._menu_active
LeftClickStamping ==
    /\ Delivered("left")
    /\ IF ~menu_active
       THEN /\ last_left_click' = clock
            /\ executed' = <<>>
            /\ UNCHANGED <<menu_active, primary_queue, secondary_queue,
                           overlay_vars, crashed, prev_left_at>>
       ELSE /\ Len(primary_queue) + Len(secondary_queue) < MaxQueued
            /\ HandleLeftClick
            /\ prev_left_at' = <<clock>>
            /\ executed' = <<>>

\* _on_click, button left
LeftClick ==
    /\ Delivered("left")
    /\ IF ~menu_active THEN Ignored
       ELSE /\ Len(primary_queue) + Len(secondary_queue) < MaxQueued
            /\ HandleLeftClick
            /\ prev_left_at' = <<clock>>
            /\ executed' = <<>>

\* _on_click, button right
RightClick ==
    /\ Delivered("right")
    /\ IF ~menu_active THEN Ignored
       ELSE /\ HandleRightClick
            /\ executed' = <<>>
            /\ UNCHANGED <<last_left_click, prev_left_at>>

\* _on_click, button x2: batch execute
X2Click ==
    /\ Delivered("x2")
    /\ IF ~menu_active THEN Ignored
       ELSE /\ \E faulty \in SUBSET Registered : ExecuteQueues(faulty)
            /\ UNCHANGED <<last_left_click, prev_left_at>>

\* mutant of Scroll: dy > 0 is focus_next
ScrollReversed(dy) ==
    /\ Delivered(IF dy > 0 THEN "scroll_up" ELSE IF dy < 0 THEN "scroll_down"
                 ELSE "scroll_flat")
    /\ IF ~menu_active THEN Ignored
       ELSE /\ IF dy > 0 THEN FocusNext ELSE FocusPrev
            /\ executed' = <<>>
            /\ UNCHANGED <<engine_vars, crashed, prev_left_at>>

\* _on_scroll: dy > 0 is focus_prev, anything else focus_next
Scroll(dy) ==
    /\ Delivered(IF dy > 0 THEN "scroll_up" ELSE IF dy < 0 THEN "scroll_down"
                 ELSE "scroll_flat")
    /\ IF ~menu_active THEN Ignored
       ELSE /\ IF dy > 0 THEN FocusPrev ELSE FocusNext
            /\ executed' = <<>>
            /\ UNCHANGED <<engine_vars, crashed, prev_left_at>>

\* _on_key_press, key esc
KeyEsc ==
    /\ Delivered("esc")
    /\ IF ~menu_active THEN Ignored
       ELSE /\ ToggleMenu(TRUE)
            /\ executed' = <<>>
            /\ UNCHANGED <<last_left_click, prev_left_at>>

Next ==
    \/ \E d \in Gaps : Tick(d)
    \/ MiddleClick
    \/ LeftClick
    \/ RightClick
    \/ X2Click
    \/ \E dy \in {-1, 0, 1} : Scroll(dy)
    \/ KeyEsc

Spec == Init /\ [][Next]_vars

TypeOK ==
    /\ modes \in Configs
    /\ menu_active \in BOOLEAN
    /\ primary_queue \in SeqUpTo(Ids, MaxQueued)
    /\ secondary_queue \in SeqUpTo(Ids, MaxQueued)
    /\ last_left_click \in 0..MaxClock
    /\ focus_index \in 0..(2 * MaxBindings)
    /\ visible \in BOOLEAN
    /\ root \in BOOLEAN
    /\ clock \in StartClock..MaxClock
    /\ crashed \in BOOLEAN

(***************************************************************************)
(* The overlay's item-chosen event (MenuOverlay.select_current, which      *)
(* calls Engine._handle_select through on_select), on modes long enough    *)
(* for the two focus directions to differ.                                 *)
(***************************************************************************)
\* MenuOverlay.select_current
SelectCurrent ==
    /\ Delivered("select")
    /\ executed' = <<>>
    /\ IF items = <<>> THEN UNCHANGED engine_vars
       ELSE /\ Len(primary_queue) + Len(secondary_queue) < MaxQueued
            /\ HandleSelect(items[focus_index + 1])
    /\ UNCHANGED <<overlay_vars, crashed, prev_left_at>>

ShownModes == [primary_queue : SeqUpTo(Ids, MaxShown),
               secondary_queue : SeqUpTo(Ids, MaxShown)]

InitOverlay == InitWith({<<m>> : m \in ShownModes})

NextOverlay ==
    \/ MiddleClick
    \/ LeftClick
    \/ \E dy \in {-1, 0, 1} : Scroll(dy)
    \/ SelectCurrent

SpecOverlay == InitOverlay /\ [][NextOverlay]_vars

(***************************************************************************)
(* Settings session (engine.py _open_settings, gui/settings_window.py).    *)
(* The editor works on the engine's own AppConfig object, so an edit is    *)
(* in the engine's configuration the moment it is made.  The engine reads  *)
(* modes[_current_mode_index] with the index 0 throughout, so modes keeps  *)
(* the mode at index 0 only and the edits are those that reach it.         *)
(***************************************************************************)
\* the mouse listener is inside no blocking call of an earlier callback
\* (window.show() of a settings session, the wait of _spawn_window)
MouseListenerFree == ~settings_open /\ ~opening

\* a ModeConfig(name=name) as _add_mode appends it
EmptyMode == [primary_queue |-> <<>>, secondary_queue |-> <<>>]

\* del list[idx]
Remove(q, idx) == SubSeq(q, 1, idx - 1) \o SubSeq(q, idx + 1, Len(q))

\* a step of the settings editor: it writes the engine's AppConfig, whose
\* mode list and menu are also the manager's
SettingsEdit(new_modes, new_menu) ==
    /\ ~crashed
    /\ settings_open
    /\ event' = "settings_edit"
    /\ executed' = <<>>
    /\ modes' = new_modes
    /\ menu' = new_menu
    /\ manager' = [modes |-> new_modes, menu |-> new_menu]
    /\ UNCHANGED <<engine_vars, overlay_vars, clock, crashed, prev_left_at,
                   settings_open, opening, settings_windows, appearance,
                   other_vars>>

\* mutant of X1Click: the guard on self._settings_open is missing
X1ClickUnguarded ==
    /\ ~crashed
    /\ event' = "x1"
    /\ executed' = <<>>
    /\ settings_open' = (menu_active \/ settings_open)
    /\ settings_windows' = IF menu_active
                           THEN settings_windows + 1 ELSE settings_windows
    /\ UNCHANGED <<modes, engine_vars, overlay_vars, clock, crashed,
                   prev_left_at, opening, config_vars, other_vars>>

\* _on_click, button x1: Engine._open_settings up to window.show(), where
\* the mouse listener stays until the window is closed
X1Click ==
    /\ ~crashed
    /\ event' = "x1"
    /\ executed' = <<>>
    /\ settings_open' = (menu_active \/ settings_open)
    /\ settings_windows' = IF menu_active /\ ~settings_open
                           THEN settings_windows + 1 ELSE settings_windows
    /\ UNCHANGED <<modes, engine_vars, overlay_vars, clock, crashed,
                   prev_left_at, opening, config_vars, other_vars>>

\* SettingsWindow._add_action on the list of the given level
AddAction(level, id) ==
    /\ ~NoModes
    /\ IF level = 1
       THEN /\ Len(CurrentMode.primary_queue) < MaxBindings
            /\ SettingsEdit(<<[CurrentMode EXCEPT
                                  !.primary_queue = Append(@, id)]>>, menu)
       ELSE /\ Len(CurrentMode.secondary_queue) < MaxBindings
            /\ SettingsEdit(<<[CurrentMode EXCEPT
                                  !.secondary_queue = Append(@, id)]>>, menu)

\* SettingsWindow._remove_action: idx is the selected row, 1-based here
RemoveAction(level, idx) ==
    /\ ~NoModes
    /\ IF level = 1
       THEN /\ idx \in 1..Len(CurrentMode.primary_queue)
            /\ SettingsEdit(<<[CurrentMode EXCEPT
                                  !.primary_queue = Remove(@, idx)]>>, menu)
       ELSE /\ idx \in 1..Len(CurrentMode.secondary_queue)
            /\ SettingsEdit(<<[CurrentMode EXCEPT
                                  !.secondary_queue = Remove(@, idx)]>>, menu)

\* SettingsWindow._add_mode on a configuration without modes
AddMode ==
    /\ NoModes
    /\ SettingsEdit(<<EmptyMode>>, menu)

\* SettingsWindow._delete_mode, confirmed, on the only mode
DeleteMode ==
    /\ ~NoModes
    /\ SettingsEdit(<<>>, menu)

\* SettingsWindow._import_config: the modes and the menu appearance of the
\* loaded file replace the engine's, and the loaded configuration becomes
\* the manager's
ImportConfig(loaded_modes, loaded_menu) ==
    SettingsEdit(loaded_modes, loaded_menu)

\* mutant of SettingsReturn: line 164 is missing
SettingsReturnKeepingAppearance ==
    /\ ~crashed
    /\ settings_open
    /\ settings_open' = FALSE
    /\ settings_windows' = settings_windows - 1
    /\ event' = "settings_closed"
    /\ executed' = <<>>
    /\ modes' = manager.modes
    /\ menu' = manager.menu
    /\ UNCHANGED <<appearance, manager, engine_vars, overlay_vars, clock,
                   crashed, prev_left_at, opening, other_vars>>

\* the settings window is closed: Engine._open_settings from line 163 on
SettingsReturn ==
    /\ ~crashed
    /\ settings_open
    /\ settings_open' = FALSE
    /\ settings_windows' = settings_windows - 1
    /\ event' = "settings_closed"
    /\ executed' = <<>>
    /\ modes' = manager.modes
    /\ menu' = manager.menu
    /\ appearance' = menu'
    /\ UNCHANGED <<manager, engine_vars, overlay_vars, clock, crashed,
                   prev_left_at, opening, other_vars>>

\* the session ends with an error raised after the window was closed (line
\* 165): the finally clause resets the flag and the exception leaves
\* _on_click
SettingsFails ==
    /\ ~crashed
    /\ settings_open
    /\ settings_open' = FALSE
    /\ settings_windows' = settings_windows - 1
    /\ event' = "settings_failed"
    /\ executed' = <<>>
    /\ modes' = manager.modes
    /\ menu' = manager.menu
    /\ appearance' = menu'
    /\ crashed' = TRUE
    /\ UNCHANGED <<manager, engine_vars, overlay_vars, clock, prev_left_at,
                   opening, other_vars>>

\* the keyboard listener runs on while the mouse listener is in the session
NextSettings ==
    \/ MouseListenerFree /\ MiddleClick
    \/ /\ MouseListenerFree
       /\ Len(primary_queue) + Len(secondary_queue) < MaxSelected
       /\ LeftClick
    \/ MouseListenerFree /\ RightClick
    \/ MouseListenerFree /\ \E dy \in {-1, 1} : Scroll(dy)
    \/ MouseListenerFree /\ X1Click
    \/ KeyEsc
    \/ \E level \in {1, 2}, id \in Ids : AddAction(level, id)
    \/ \E level \in {1, 2}, idx \in 1..MaxBindings : RemoveAction(level, idx)
    \/ AddMode
    \/ DeleteMode
    \/ \E loaded \in Configs : ImportConfig(loaded, menu)
    \/ SettingsReturn

SpecSettings == Init /\ [][NextSettings]_vars

\* menu appearances of the configuration files
Menus == {"initial", "imported"}

\* settings sessions alone: a settings request can arrive while a session
\* is outstanding (the window's event loop runs on the mouse listener's
\* thread), and a session can end with an error
NextSession ==
    \/ MouseListenerFree /\ MiddleClick
    \/ ~opening /\ X1Click
    \/ KeyEsc
    \/ \E level \in {1, 2}, id \in Ids : AddAction(level, id)
    \/ \E loaded \in Configs, m \in Menus : ImportConfig(loaded, m)
    \/ SettingsReturn
    \/ SettingsFails

SpecSession == Init /\ [][NextSession]_vars

(***************************************************************************)
(* The first open (gui/menu_overlay.py open, _spawn_window, _init_window): *)
(* the caller starts the surface thread and spins until self._root is set; *)
(* the surface thread sets it when tk.Tk() returns and ends when tk.Tk()   *)
(* raises.                                                                 *)
(***************************************************************************)
\* _on_click, button middle, menu closed and no surface yet: _toggle_menu
\* up to the wait of _spawn_window
OpenBegin ==
    /\ ~crashed
    /\ MouseListenerFree
    /\ ~menu_active /\ ~NoModes /\ ~root
    /\ event' = "middle"
    /\ executed' = <<>>
    /\ items' = MenuItems(CurrentMode)
    /\ focus_index' = 0
    /\ thread' = "starting"
    /\ opening' = TRUE
    /\ UNCHANGED <<modes, engine_vars, visible, root, clock, crashed,
                   prev_left_at, settings_open, settings_windows,
                   config_vars, other_vars>>

\* what a step of the surface thread leaves alone
SurfaceStep ==
    /\ thread = "starting"
    /\ executed' = <<>>
    /\ UNCHANGED <<modes, engine_vars, items, focus_index, visible, clock,
                   crashed, prev_left_at, settings_open, opening,
                   settings_windows, config_vars, other_vars>>

\* _init_window: self._root = tk.Tk() and on into mainloop
SurfaceCreated ==
    /\ SurfaceStep
    /\ event' = "surface_created"
    /\ root' = TRUE
    /\ thread' = "mainloop"

\* _init_window: tk.Tk() raises; the exception ends the surface thread only
SurfaceFails ==
    /\ SurfaceStep
    /\ event' = "surface_failed"
    /\ thread' = "failed"
    /\ UNCHANGED root

\* the wait of _spawn_window sees self._root: the rest of MenuOverlay.open
\* and of _toggle_menu
OpenEnd ==
    /\ ~crashed
    /\ opening /\ root
    /\ opening' = FALSE
    /\ event' = "opened"
    /\ executed' = <<>>
    /\ visible' = TRUE
    /\ primary_queue' = <<>>
    /\ secondary_queue' = <<>>
    /\ menu_active' = TRUE
    /\ UNCHANGED <<modes, last_left_click, items, focus_index, root, thread,
                   clock, crashed, prev_left_at, settings_open,
                   settings_windows, config_vars, other_vars>>

NextSurface ==
    \/ OpenBegin
    \/ SurfaceCreated
    \/ SurfaceFails
    \/ OpenEnd
    \/ MouseListenerFree /\ (menu_active \/ NoModes \/ root) /\ MiddleClick
    \/ /\ MouseListenerFree
       /\ Len(primary_queue) + Len(secondary_queue) < MaxSelected
       /\ LeftClick
    \/ MouseListenerFree /\ RightClick
    \/ MouseListenerFree /\ \E dy \in {-1, 1} : Scroll(dy)
    \/ KeyEsc

\* the scheduler runs the surface thread and the spinning caller
SpecSurface ==
    /\ Init
    /\ [][NextSurface]_vars
    /\ WF_vars(SurfaceCreated \/ SurfaceFails)
    /\ WF_vars(OpenEnd)

(***************************************************************************)
(* The surface thread's callbacks (gui/menu_overlay.py _invoke): open,     *)
(* close and the focus moves pass their Tk calls to root.after(0, ...),    *)
(* and the surface thread's mainloop runs them one at a time, the one      *)
(* scheduled first being run first.                                        *)
(***************************************************************************)
\* the _invoke calls of MenuOverlay.open, close and focus_next / focus_prev
OpenCallbacks == <<"render", "deiconify", "lift">>
CloseCallbacks == <<"withdraw">>
FocusCallbacks == <<"render">>

\* self._root.after(0, callback) for each of the callbacks
Scheduled(callbacks) ==
    /\ Len(pending) + Len(callbacks) <= MaxPending
    /\ pending' = pending \o callbacks
    /\ UNCHANGED shown

\* what a listener event leaves alone when the callbacks are followed
Listened(kind) ==
    /\ ~crashed
    /\ event' = kind
    /\ executed' = <<>>
    /\ UNCHANGED <<modes, clock, last_left_click, prev_left_at, settings_open,
                   opening, settings_windows, config_vars, actions, handling,
                   scrolled>>

\* _on_click, button middle
TriggerScheduling ==
    /\ Listened("middle")
    /\ ToggleMenu(FALSE)
    /\ Scheduled(IF menu_active THEN CloseCallbacks
                 ELSE IF NoModes THEN <<>> ELSE OpenCallbacks)

\* _on_key_press, key esc
EscScheduling ==
    /\ Listened("esc")
    /\ IF ~menu_active THEN Ignored /\ UNCHANGED surface_vars
       ELSE ToggleMenu(TRUE) /\ Scheduled(CloseCallbacks)

\* _on_scroll
ScrollScheduling(dy) ==
    /\ Listened(IF dy > 0 THEN "scroll_up" ELSE "scroll_down")
    /\ IF ~menu_active THEN Ignored /\ UNCHANGED surface_vars
       ELSE /\ IF dy > 0 THEN FocusPrev ELSE FocusNext
            /\ UNCHANGED <<menu_active, primary_queue, secondary_queue, crashed>>
            /\ Scheduled(IF items = <<>> THEN <<>> ELSE FocusCallbacks)

\* what a callback does to the surface: deiconify shows it, withdraw hides
\* it, _render_items and lift leave it shown or hidden as it was
Effect(callback, is_shown) ==
    IF callback = "deiconify" THEN TRUE
    ELSE IF callback = "withdraw" THEN FALSE ELSE is_shown

\* what a step of the surface thread's mainloop leaves alone
MainloopStep ==
    /\ pending # <<>>
    /\ event' = "callback"
    /\ executed' = <<>>
    /\ UNCHANGED <<modes, engine_vars, overlay_vars, clock, crashed,
                   prev_left_at, settings_open, opening, settings_windows,
                   config_vars, actions, handling, scrolled>>

\* mutant of RunCallback: the callback scheduled last is run first
RunCallbackNewestFirst ==
    /\ MainloopStep
    /\ shown' = Effect(pending[Len(pending)], shown)
    /\ pending' = SubSeq(pending, 1, Len(pending) - 1)

\* the mainloop runs the callback scheduled first
RunCallback ==
    /\ MainloopStep
    /\ shown' = Effect(Head(pending), shown)
    /\ pending' = Tail(pending)

NextCallbacks ==
    \/ TriggerScheduling
    \/ EscScheduling
    \/ \E dy \in {-1, 1} : ScrollScheduling(dy)
    \/ RunCallback

SpecCallbacks == Init /\ [][NextCallbacks]_vars

(***************************************************************************)
(* Action Dispatch on its own (actions/registry.py): register and execute  *)
(* calls on a registry that starts empty.                                  *)
(***************************************************************************)
\* identifiers and handlers of the calls
ActionIds == Ids \cup {"paste"}
Handlers == {"_copy", "_paste"}

\* mutant of RegisterResult: a second registration replaces the handler
RegisterOverwriting(registered, id, handler) ==
    [actions |-> [x \in DOMAIN registered \cup {id} |->
                     IF x = id THEN handler ELSE registered[x]],
     raised |-> "none"]

\* ActionRegistry.register: the registry it leaves and what it raises
RegisterResult(registered, id, handler) ==
    IF id \in DOMAIN registered
    THEN [actions |-> registered, raised |-> "ValueError"]
    ELSE [actions |-> [x \in DOMAIN registered \cup {id} |->
                          IF x = id THEN handler ELSE registered[x]],
          raised |-> "none"]

\* ActionRegistry.execute: the handlers it invokes and what it raises;
\* fails: the handler raises
ExecuteResult(registered, id, fails) ==
    IF id \notin DOMAIN registered
    THEN [invoked |-> <<>>, raised |-> "KeyError"]
    ELSE [invoked |-> <<registered[id]>>,
          raised |-> IF fails THEN "handler" ELSE "none"]

\* what a call on the registry leaves alone
RegistryCall ==
    /\ UNCHANGED <<modes, engine_vars, overlay_vars, clock, crashed,
                   prev_left_at, settings_open, opening, settings_windows,
                   config_vars, surface_vars, handling, scrolled>>

\* registry.register(id, handler)
Register(id, handler) ==
    LET result == RegisterResult(actions, id, handler)
    IN /\ actions' = result.actions
       /\ event' = IF result.raised = "none" THEN "registered"
                   ELSE "register_raised"
       /\ executed' = <<>>
       /\ RegistryCall

\* registry.execute(id, params)
Execute(id, fails) ==
    LET result == ExecuteResult(actions, id, fails)
    IN /\ executed' = <<id>>
       /\ event' = IF result.raised = "none" THEN "executed"
                   ELSE IF result.raised = "KeyError" THEN "execute_unknown"
                   ELSE "execute_raised"
       /\ UNCHANGED actions
       /\ RegistryCall

InitRegistry == InitFrom({<<>>}, <<>>)

NextRegistry ==
    \/ \E id \in ActionIds, handler \in Handlers : Register(id, handler)
    \/ \E id \in ActionIds, fails \in BOOLEAN : Execute(id, fails)

SpecRegistry == InitRegistry /\ [][NextRegistry]_vars

\* the listener thread that handles an event: pynput runs _on_click and
\* _on_scroll on the mouse.Listener thread, _on_key_press on the
\* keyboard.Listener thread
ListenerOf(kind) ==
    IF kind \in {"middle", "left", "right", "x1", "x2", "scroll_up",
                 "scroll_down", "scroll_flat", "settings_closed", "opened"}
    THEN "mouse"
    ELSE IF kind = "esc" THEN "keyboard" ELSE "none"

(***************************************************************************)
(* The two listener threads.  _on_click reads self._menu_active (line 58)  *)
(* and then calls the button's handler; neither takes _menu_lock, so the   *)
(* keyboard listener's _on_key_press can run between the read and the      *)
(* handler.  The mouse listener handles one event at a time.               *)
(***************************************************************************)
\* _on_click, button left or right, up to the call of the handler: the
\* guard of line 58 has found the menu open
ClickAdmitted(button) ==
    /\ ~crashed
    /\ handling = "none"
    /\ menu_active
    /\ button = "left" => Len(primary_queue) + Len(secondary_queue) < MaxQueued
    /\ handling' = button
    /\ event' = "admitted"
    /\ executed' = <<>>
    /\ UNCHANGED <<modes, engine_vars, overlay_vars, clock, crashed,
                   prev_left_at, settings_open, opening, settings_windows,
                   config_vars, actions, surface_vars, scrolled>>

\* what the handler of an admitted click leaves alone
ClickHandled(kind) ==
    /\ ~crashed
    /\ handling = kind
    /\ handling' = "none"
    /\ event' = kind
    /\ executed' = <<>>
    /\ UNCHANGED <<modes, clock, settings_open, opening, settings_windows,
                   config_vars, actions, surface_vars, scrolled>>

\* _on_click line 61: self._handle_left_click()
LeftClickHandler ==
    /\ ClickHandled("left")
    /\ HandleLeftClick
    /\ prev_left_at' = <<clock>>

\* _on_click line 63: self._handle_right_click()
RightClickHandler ==
    /\ ClickHandled("right")
    /\ HandleRightClick
    /\ UNCHANGED <<last_left_click, prev_left_at>>

NextRace ==
    \/ \E d \in Gaps : Tick(d)
    \/ handling = "none" /\ MiddleClick
    \/ handling = "none" /\ ~menu_active /\ LeftClick
    \/ handling = "none" /\ ~menu_active /\ RightClick
    \/ \E button \in {"left", "right"} : ClickAdmitted(button)
    \/ LeftClickHandler
    \/ RightClickHandler
    \/ KeyEsc

SpecRace == Init /\ [][NextRace]_vars

(***************************************************************************)
(* Every input the engine handles, with the first open in its two steps    *)
(* and the overlay's cancel event (MenuOverlay.cancel, which calls         *)
(* Engine._handle_cancel through on_cancel).                               *)
(***************************************************************************)
\* MenuOverlay.cancel: _toggle_menu(force_close=True), which waits for
\* _menu_lock while an open is in progress
Cancel ==
    /\ Delivered("cancel")
    /\ ~opening
    /\ ToggleMenu(TRUE)
    /\ executed' = <<>>
    /\ UNCHANGED <<last_left_click, prev_left_at>>

\* the wait of _spawn_window sees self._root: MenuOverlay.open to its end,
\* self._visible = True; _toggle_menu still holds _menu_lock
OverlayShown ==
    /\ ~crashed
    /\ opening /\ root /\ ~visible
    /\ visible' = TRUE
    /\ event' = "shown"
    /\ executed' = <<>>
    /\ UNCHANGED <<modes, engine_vars, items, focus_index, root, thread,
                   clock, crashed, prev_left_at, settings_open, opening,
                   settings_windows, config_vars, other_vars>>

NextEvents ==
    \/ \E d \in Gaps : Tick(d)
    \/ OpenBegin
    \/ SurfaceCreated
    \/ SurfaceFails
    \/ OverlayShown
    \/ visible /\ OpenEnd
    \/ MouseListenerFree /\ (menu_active \/ NoModes \/ root) /\ MiddleClick
    \/ MouseListenerFree /\ LeftClick
    \/ MouseListenerFree /\ RightClick
    \/ MouseListenerFree /\ X1Click
    \/ SettingsReturn
    \/ MouseListenerFree /\ X2Click
    \/ MouseListenerFree /\ \E dy \in {-1, 0, 1} : Scroll(dy)
    \/ KeyEsc
    \/ Cancel

SpecEvents == Init /\ [][NextEvents]_vars

(***************************************************************************)
(* The focus moves of one open menu, counted: the trigger and the scroll   *)
(* callback as above, with the number of focus_next calls less that of     *)
(* focus_prev calls since the open kept beside them.                       *)
(***************************************************************************)
\* what a counted event leaves alone
Counted(kind) ==
    /\ ~crashed
    /\ event' = kind
    /\ executed' = <<>>
    /\ UNCHANGED <<modes, clock, last_left_click, prev_left_at, settings_open,
                   opening, settings_windows, config_vars, actions,
                   surface_vars, handling>>

\* _on_click, button middle: an open starts the count
CountedTrigger ==
    /\ Counted("middle")
    /\ ToggleMenu(FALSE)
    /\ scrolled' = IF menu_active THEN scrolled ELSE 0

\* _on_scroll on the open menu
CountedScroll(dy) ==
    /\ Counted(IF dy > 0 THEN "scroll_up" ELSE IF dy < 0 THEN "scroll_down"
               ELSE "scroll_flat")
    /\ menu_active
    /\ IF dy > 0 THEN FocusPrev ELSE FocusNext
    /\ scrolled' = IF dy > 0 THEN scrolled - 1 ELSE scrolled + 1
    /\ scrolled' \in -MaxScrolls..MaxScrolls
    /\ UNCHANGED <<menu_active, primary_queue, secondary_queue, crashed>>

NextFocus ==
    \/ CountedTrigger
    \/ \E dy \in {-1, 0, 1} : CountedScroll(dy)
    \/ Len(primary_queue) + Len(secondary_queue) < MaxSelected /\ LeftClick
    \/ KeyEsc

SpecFocus == InitOverlay /\ [][NextFocus]_vars

(***************************************************************************)
(* Properties.                                                             *)
(***************************************************************************)
\* the queues as one value
Queues == <<primary_queue, secondary_queue>>

\* C1: a step in which the trigger opens the menu (closed before, open
\* after) leaves the primary and the secondary queue empty and the overlay
\* focus index at 0, whatever they held before the step.
C1_OpenClearsQueuesAndFocus ==
    [][(event' = "middle" /\ ~menu_active /\ menu_active')
        => /\ primary_queue' = <<>>
           /\ secondary_queue' = <<>>
           /\ focus_index' = 0]_vars

\* C1 witness: the menu has just been reopened by the trigger after a
\* session in which clicks were made; queues empty, focus 0.
C1_Witness ==
    /\ event = "middle"
    /\ menu_active
    /\ prev_left_at # <<>>
    /\ Len(items) > 1
    /\ Queues = <<<<>>, <<>>>>
    /\ focus_index = 0

\* C2: while the menu is open and the active mode has a binding, a left
\* click that comes no left click before it, or at least 350 ms after the
\* previous one, appends the focused binding at the end of the primary queue
\* and leaves the secondary queue as it was.
C2_SpacedClicksAppendToPrimary ==
    [][(/\ event' = "left"
        /\ menu_active
        /\ ~NoModes
        /\ CurrentFocusBinding # NoBinding
        /\ \/ prev_left_at = <<>>
           \/ /\ prev_left_at # <<>>
              /\ clock - prev_left_at[1] >= DoubleClickWindow)
        => /\ primary_queue' = primary_queue \o <<CurrentFocusBinding>>
           /\ secondary_queue' = secondary_queue]_vars

\* C2 witness: three clicks, 350 ms apart, have filled the primary queue.
C2_Witness ==
    /\ event = "left"
    /\ menu_active
    /\ Len(primary_queue) = 3
    /\ secondary_queue = <<>>
    /\ clock = StartClock + 2 * DoubleClickWindow
    /\ prev_left_at = <<clock>>

\* C3: while the menu is open, a left click less than 350 ms after the
\* left click handled immediately before it appends the focused binding at
\* the end of the secondary queue and leaves the primary queue as it was,
\* whichever queue that earlier click appended to.
C3_QuickClickAppendsToSecondary ==
    [][(/\ event' = "left"
        /\ menu_active
        /\ ~NoModes
        /\ CurrentFocusBinding # NoBinding
        /\ prev_left_at # <<>>
        /\ clock - prev_left_at[1] < DoubleClickWindow)
        => /\ secondary_queue' = secondary_queue \o <<CurrentFocusBinding>>
           /\ primary_queue' = primary_queue]_vars

\* C3 witness: a run of three clicks half a window apart: the third comes a
\* full window after the first and has still gone to the secondary queue.
C3_Witness ==
    /\ event = "left"
    /\ menu_active
    /\ Len(primary_queue) = 1
    /\ Len(secondary_queue) = 2
    /\ clock = StartClock + 2 * (DoubleClickWindow \div 2)
    /\ prev_left_at = <<clock>>

\* C4: a right click while the menu is open removes the last element of the
\* primary queue if that queue is non-empty (secondary unchanged, menu still
\* open); else the last element of the secondary queue if that is non-empty
\* (menu still open); else, both being empty, it closes the menu.
C4_RightClickPopsPrimaryFirst ==
    [][(event' = "right" /\ menu_active)
        => IF primary_queue # <<>>
           THEN /\ primary_queue' = SubSeq(primary_queue, 1, Len(primary_queue) - 1)
                /\ secondary_queue' = secondary_queue
                /\ menu_active'
           ELSE IF secondary_queue # <<>>
                THEN /\ secondary_queue'
                          = SubSeq(secondary_queue, 1, Len(secondary_queue) - 1)
                     /\ primary_queue' = primary_queue
                     /\ menu_active'
                ELSE /\ ~menu_active'
                     /\ Queues' = Queues]_vars

\* C4 witness: a right click has emptied the primary queue while the
\* secondary queue, appended to last, keeps its bindings.
C4_Witness ==
    /\ event = "right"
    /\ menu_active
    /\ primary_queue = <<>>
    /\ Len(secondary_queue) = 2
    /\ prev_left_at = <<clock>>

\* C5: the calls a batch execute makes to Action Dispatch are the primary
\* queue's bindings in append order followed by the secondary queue's in
\* append order: always a prefix of that sequence, at least one call when a
\* binding is queued, and the whole sequence when no call raised.
C5_PrimaryBeforeSecondaryInOrder ==
    [][(event' = "x2" /\ menu_active)
        => LET all == primary_queue \o secondary_queue
           IN /\ IsPrefix(executed', all)
              /\ all # <<>> => executed' # <<>>
              /\ ~crashed' => executed' = all]_vars

\* C5 witness: a batch of two primary bindings and one secondary binding has
\* run to its end.
C5_Witness ==
    /\ event = "x2"
    /\ ~crashed
    /\ Len(primary_queue) = 2
    /\ Len(secondary_queue) = 1
    /\ executed = primary_queue \o secondary_queue

\* C6 (as claimed): a batch execute dispatches every queued binding, those
\* queued after a binding whose dispatch failed included.
C6_FailureDoesNotAbortBatch ==
    [][(event' = "x2" /\ menu_active)
        => executed' = primary_queue \o secondary_queue]_vars

\* C7 (as claimed): every batch execute received while the menu is open ends
\* with the menu closed and the overlay hidden.
C7_ExecuteAlwaysCloses ==
    [][(event' = "x2" /\ menu_active) => (~menu_active' /\ ~visible')]_vars

\* C8 (as claimed): a trigger while the menu is closed opens it; a trigger or
\* an escape while it is open closes it, hides the overlay and leaves both
\* queues as they were.
C8_TriggerToggles ==
    [][/\ (event' = "middle" /\ ~menu_active) => menu_active'
       /\ (event' \in {"middle", "esc"} /\ menu_active)
            => (~menu_active' /\ ~visible' /\ root' /\ Queues' = Queues)]_vars

\* C8 (amended): a trigger while the menu is closed and a mode is configured
\* opens the menu and shows the overlay; a trigger or an escape while the
\* menu is open closes it, hides the overlay (the surface exists, so the hide
\* is scheduled) and leaves both queues as they were.
C8_TriggerTogglesWhenConfigured ==
    [][/\ (event' = "middle" /\ ~menu_active /\ ~NoModes)
            => (menu_active' /\ visible')
       /\ (event' \in {"middle", "esc"} /\ menu_active)
            => (~menu_active' /\ ~visible' /\ root' /\ Queues' = Queues)]_vars

\* C8 witness: the trigger has closed a menu whose queues hold bindings.
C8_Witness ==
    /\ event = "middle"
    /\ ~menu_active
    /\ ~visible
    /\ primary_queue # <<>>
    /\ secondary_queue # <<>>

\* C9: a step that closes the menu leaves both queues with the contents
\* they had, and a step that opens it leaves both empty.
C9_CloseKeepsQueuesOpenClears ==
    [][/\ (menu_active /\ ~menu_active') => Queues' = Queues
       /\ (~menu_active /\ menu_active') => Queues' = <<<<>>, <<>>>>]_vars

\* C9 witness: a batch execute has closed the menu and both queues still
\* hold the bindings it dispatched.
C9_Witness ==
    /\ event = "x2"
    /\ ~menu_active
    /\ primary_queue # <<>>
    /\ secondary_queue # <<>>
    /\ executed = primary_queue \o secondary_queue

\* C10 (as claimed): a queue is non-empty only while the menu is open.
C10_QueuesNonEmptyOnlyWhileOpen ==
    (primary_queue # <<>> \/ secondary_queue # <<>>) => menu_active

\* C10 (amended): a queue is non-empty only while the menu is open or after
\* it has been open (its overlay surface exists); the queues are cleared on
\* open, not on close, execute or cancel.
C10_QueuesNonEmptyOnlyAfterOpen ==
    (primary_queue # <<>> \/ secondary_queue # <<>>)
        => (menu_active \/ (root /\ ~visible))

\* C10 witness: the menu is closed and a queue still holds a binding.
C10_Witness ==
    /\ ~menu_active
    /\ root
    /\ primary_queue # <<>>

\* the bindings the overlay shows: the snapshot of the mode taken at open
Snapshot == {items[i].binding : i \in 1..Len(items)}

\* the active mode's primary list followed by its secondary list
ModeBindings == CurrentMode.primary_queue \o CurrentMode.secondary_queue

\* C11: the execution queues only ever hold bindings of the snapshot of the
\* active mode taken when the menu was opened, also when the mode was edited
\* by a settings session after the open
C11_QueuesHoldSnapshotBindings ==
    /\ \A i \in 1..Len(primary_queue) : primary_queue[i] \in Snapshot
    /\ \A i \in 1..Len(secondary_queue) : secondary_queue[i] \in Snapshot

\* C12: while the menu is open and the active mode holds N > 0 bindings,
\* the overlay focus index lies in [0, N)
C12_FocusIndexWithinMode ==
    (menu_active /\ ~NoModes /\ Len(ModeBindings) > 0)
        => focus_index \in 0..(Len(ModeBindings) - 1)

\* a focus index clamped into [0, n - 1]
Clamped(index, n) ==
    IF index < 0 THEN 0 ELSE IF index > n - 1 THEN n - 1 ELSE index

\* C16: a left click on the open menu selects the element of the active
\* mode's primary list followed by its secondary list at the focus index
\* clamped into [0, length - 1]; when the two lists are empty it changes
\* neither queue and leaves the menu open
C16_FocusedBindingIsClampedElement ==
    [][(event' = "left" /\ menu_active /\ ~NoModes) =>
          IF ModeBindings = <<>>
          THEN /\ primary_queue' = primary_queue
               /\ secondary_queue' = secondary_queue
               /\ menu_active'
          ELSE LET focused ==
                       ModeBindings[Clamped(focus_index, Len(ModeBindings)) + 1]
               IN \/ /\ primary_queue' = Append(primary_queue, focused)
                     /\ secondary_queue' = secondary_queue
                  \/ /\ secondary_queue' = Append(secondary_queue, focused)
                     /\ primary_queue' = primary_queue]_vars

\* a left click selected with the focus index beyond the edited mode's
\* last binding
C16_Witness ==
    /\ event = "left"
    /\ menu_active
    /\ ~NoModes
    /\ ModeBindings # <<>>
    /\ focus_index > Len(ModeBindings) - 1
    /\ primary_queue = <<ModeBindings[Len(ModeBindings)]>>

\* k calls of focus_next, and of focus_prev, on n items
RECURSIVE NextTimes(_, _, _)
NextTimes(index, n, k) ==
    IF k = 0 THEN index ELSE NextTimes(NextFocusIndex(index, n), n, k - 1)
RECURSIVE PrevTimes(_, _, _)
PrevTimes(index, n, k) ==
    IF k = 0 THEN index ELSE PrevTimes(PrevFocusIndex(index, n), n, k - 1)

\* C13: on N > 0 displayed items focus_next moves the focus index one up
\* and from the last item to the first, focus_prev one down and from the
\* first item to the last; N calls of either return to the starting index
\* and focus_next followed by focus_prev restores it; on N = 0 items either
\* call leaves the index unchanged
C13_FocusWrapsModuloItems ==
    LET n == Len(items)
        i == focus_index
    IN IF n = 0
       THEN NextFocusIndex(i, n) = i /\ PrevFocusIndex(i, n) = i
       ELSE /\ NextFocusIndex(i, n) = (IF i = n - 1 THEN 0 ELSE i + 1)
            /\ PrevFocusIndex(i, n) = (IF i = 0 THEN n - 1 ELSE i - 1)
            /\ NextTimes(i, n, n) = i
            /\ PrevTimes(i, n, n) = i
            /\ PrevFocusIndex(NextFocusIndex(i, n), n) = i

\* a focus_next on the last of more than two items has wrapped to the first
C13_Witness ==
    /\ menu_active
    /\ event = "scroll_down"
    /\ Len(items) > 2
    /\ focus_index = 0
    /\ NextTimes(focus_index, Len(items), Len(items) - 1) = Len(items) - 1

\* one position forward / backward among n displayed items
Forward(index, n) == IF n = 0 THEN index ELSE (index + 1) % n
Backward(index, n) == IF n = 0 THEN index ELSE (index + n - 1) % n

\* what no scroll event changes
ScrollFrame ==
    /\ primary_queue' = primary_queue
    /\ secondary_queue' = secondary_queue
    /\ menu_active' = menu_active
    /\ items' = items

\* C14 as claimed: a scroll on the open menu moves the focus one position,
\* forward for a scroll away from the user (dy > 0), backward for a scroll
\* toward the user (dy < 0), and changes neither queue nor the menu-open
\* flag; a scroll on the closed menu changes nothing
C14_ScrollAwayAdvancesFocus ==
    [][(event' \in {"scroll_up", "scroll_down"}) =>
          /\ ScrollFrame
          /\ focus_index' =
                IF ~menu_active THEN focus_index
                ELSE IF event' = "scroll_up"
                     THEN Forward(focus_index, Len(items))
                     ELSE Backward(focus_index, Len(items))]_vars

\* C14 amended: a scroll away from the user (dy > 0) moves the focus one
\* position backward, any other scroll (toward the user, or horizontal
\* only) one position forward, modulo the number of displayed items
C14_ScrollAwayRetreatsFocus ==
    [][(event' \in {"scroll_up", "scroll_down", "scroll_flat"}) =>
          /\ ScrollFrame
          /\ focus_index' =
                IF ~menu_active THEN focus_index
                ELSE IF event' = "scroll_up"
                     THEN Backward(focus_index, Len(items))
                     ELSE Forward(focus_index, Len(items))]_vars

\* a scroll away from the user, on more than two items, has moved the focus
\* from the first item to the last
C14_Witness ==
    /\ menu_active
    /\ event = "scroll_up"
    /\ Len(items) > 2
    /\ focus_index = Len(items) - 1
    /\ primary_queue = <<>> /\ secondary_queue = <<>>

\* C15: when the menu opens the overlay's items are the active mode's
\* primary bindings, each tagged level 1, in mode order, followed by its
\* secondary bindings, each tagged level 2, in mode order
C15_OpenSnapshotsModeInOrder ==
    [][(event' = "middle" /\ ~menu_active /\ ~NoModes) =>
          LET p == CurrentMode.primary_queue
              q == CurrentMode.secondary_queue
          IN /\ Len(items') = Len(p) + Len(q)
             /\ \A i \in 1..Len(p) :
                   items'[i] = [binding |-> p[i], queue_level |-> 1]
             /\ \A i \in 1..Len(q) :
                   items'[Len(p) + i] = [binding |-> q[i], queue_level |-> 2]]_vars

\* the menu has opened on a mode whose two lists both hold two different
\* bindings
C15_Witness ==
    /\ event = "middle"
    /\ menu_active
    /\ Len(CurrentMode.primary_queue) > 1
    /\ Len(CurrentMode.secondary_queue) > 1
    /\ CurrentMode.primary_queue[1] # CurrentMode.primary_queue[2]
    /\ CurrentMode.secondary_queue[1] # CurrentMode.secondary_queue[2]
    /\ Len(items) = Len(ModeBindings)

\* C17: an item-chosen event appends the chosen item's binding to the
\* primary queue when the item is tagged level 1 and to the secondary queue
\* when it is tagged level 2, whatever the time since the last left click,
\* and leaves the other queue, the menu-open flag and the last-click
\* timestamp unchanged
C17_ItemChosenAppendsByLevel ==
    [][(event' = "select" /\ items # <<>>) =>
          LET item == items[focus_index + 1]
          IN /\ item.queue_level = 1 =>
                   /\ primary_queue' = Append(primary_queue, item.binding)
                   /\ secondary_queue' = secondary_queue
             /\ item.queue_level = 2 =>
                   /\ secondary_queue' = Append(secondary_queue, item.binding)
                   /\ primary_queue' = primary_queue
             /\ item.queue_level \in {1, 2}
             /\ menu_active' = menu_active
             /\ last_left_click' = last_left_click]_vars

\* an item tagged level 1 was chosen within the double-click window of a
\* left click and went to the primary queue
C17_Witness ==
    /\ event = "select"
    /\ items # <<>>
    /\ items[focus_index + 1].queue_level = 1
    /\ clock - last_left_click < DoubleClickWindow
    /\ Len(primary_queue) = 2
    /\ secondary_queue = <<>>

\* C18: every write to the engine's state (the two queues, the menu-open
\* flag, the last-click timestamp) is made by one and the same listener
\* thread.  The first write of every behaviour is the open of the menu by
\* the mouse listener, so that one thread is the mouse listener.
C18_SingleWriterThread ==
    [][engine_vars' # engine_vars => ListenerOf(event') = "mouse"]_vars

\* C19: the engine never handles an input event with no mode configured
C19_NoModesIsFatalAtStartup ==
    NoModes => ListenerOf(event) = "none"

\* C20: a caller waiting in the first open always eventually returns from
\* it or the process is aborted
C20_OpenReturnsOrAborts ==
    opening ~> (~opening \/ crashed)

\* C21: a settings request made while a session is outstanding opens no
\* second window and changes nothing; the settings-open flag is false
\* again when the session has returned, with or without an error; a
\* request on the open menu with the flag false opens a session
C21_SettingsSessionGuarded ==
    [][/\ (event' = "x1" /\ settings_open) =>
             /\ settings_open'
             /\ settings_windows' = settings_windows
             /\ UNCHANGED <<modes, config_vars, engine_vars, overlay_vars,
                            crashed>>
       /\ (event' \in {"settings_closed", "settings_failed"}) =>
             ~settings_open' /\ settings_windows' = 0
       /\ (event' = "x1" /\ ~settings_open /\ menu_active) =>
             settings_open' /\ settings_windows' = 1
       /\ settings_windows' <= 1]_vars

\* a request arrived during a session in which Esc had closed the menu
C21_Witness ==
    /\ event = "x1"
    /\ settings_open
    /\ ~menu_active
    /\ settings_windows = 1

\* C22: when a settings session returns the engine keeps the configuration
\* the session edited, and every later menu open builds the displayed
\* items from the edited mode lists (the manager's, which the editor wrote)
\* with the overlay using the edited appearance
C22_ReturnUsesEditedConfig ==
    [][/\ (event' = "settings_closed") =>
             /\ modes' = modes
             /\ menu' = menu
             /\ appearance' = menu
       /\ (event' = "middle" /\ ~menu_active /\ manager.modes # <<>>) =>
             LET p == manager.modes[1].primary_queue
                 q == manager.modes[1].secondary_queue
             IN /\ menu_active'
                /\ Len(items') = Len(p) + Len(q)
                /\ \A i \in 1..Len(p) :
                      items'[i] = [binding |-> p[i], queue_level |-> 1]
                /\ \A i \in 1..Len(q) :
                      items'[Len(p) + i] = [binding |-> q[i], queue_level |-> 2]
                /\ appearance' = manager.menu]_vars

\* the menu has opened on a configuration that a session imported and then
\* extended
C22_Witness ==
    /\ event = "middle"
    /\ menu_active
    /\ ~settings_open
    /\ appearance = "imported"
    /\ Len(items) = 2 * MaxBindings
    /\ items[1].binding = "bogus"

\* C23: on every registry the program reaches, register with a registered
\* identifier raises and leaves the registry as it was, register with a new
\* one adds the handler and keeps the others; execute with an unregistered
\* identifier raises the unknown-identifier error and invokes no handler,
\* execute with a registered one invokes its handler exactly once and a
\* failure of the handler is what the call raises
C23_RegisterAndExecuteContract ==
    /\ \A id \in ActionIds, handler \in Handlers :
          LET result == RegisterResult(actions, id, handler)
          IN IF id \in DOMAIN actions
             THEN result.raised = "ValueError" /\ result.actions = actions
             ELSE /\ result.raised = "none"
                  /\ DOMAIN result.actions = DOMAIN actions \cup {id}
                  /\ result.actions[id] = handler
                  /\ \A x \in DOMAIN actions : result.actions[x] = actions[x]
    /\ \A id \in ActionIds, fails \in BOOLEAN :
          LET result == ExecuteResult(actions, id, fails)
          IN IF id \in DOMAIN actions
             THEN /\ result.invoked = <<actions[id]>>
                  /\ result.raised = "handler" <=> fails
                  /\ result.raised = "none" <=> ~fails
             ELSE result.invoked = <<>> /\ result.raised = "KeyError"

\* a second registration was refused on a registry with two handlers, one
\* identifier still unregistered
C23_Witness ==
    /\ event = "register_raised"
    /\ Cardinality(DOMAIN actions) = 2
    /\ \E x, y \in DOMAIN actions : actions[x] # actions[y]

\* C24: the surface thread is started only while none was ever started, so
\* at most once; once started the thread and the surface it created are
\* never discarded; a close only clears the visible flag and an open that
\* finds the surface keeps it and its thread
C24_SurfaceCreatedOnce ==
    [][/\ (thread' = "starting" /\ thread # "starting") => thread = "none"
       /\ (thread # "none") => (thread' # "none")
       /\ root => root'
       /\ (menu_active /\ ~menu_active') =>
             ~visible' /\ root' = root /\ thread' = thread
       /\ (~menu_active /\ menu_active' /\ root) =>
             visible' /\ thread' = thread]_vars

\* the menu was opened again on the surface of the first open
C24_Witness ==
    /\ event = "middle"
    /\ menu_active
    /\ visible
    /\ root
    /\ thread = "mainloop"

\* C25: the surface thread runs the callback scheduled first, so whenever
\* the menu is closed and the hide of its close is no longer waiting, the
\* surface is hidden, whatever callbacks of the open and of focus moves were
\* still waiting when the menu was closed
C25_ClosedMenuEndsHidden ==
    [][/\ (event' = "callback") =>
             /\ pending' = Tail(pending)
             /\ shown' = Effect(Head(pending), shown)
       /\ (~visible' /\ \A i \in 1..Len(pending') : pending'[i] # "withdraw")
             => ~shown']_vars

\* the show callback of an open ran after the menu had been closed, the
\* hide of the close still waiting behind it
C25_Witness ==
    /\ event = "callback"
    /\ ~visible
    /\ shown
    /\ pending = <<"lift", "withdraw">>

\* C26: a batch execute leaves both queues with the contents they had, makes
\* never more dispatches than bindings are queued, and when no dispatch
\* fails makes len(primary) + len(secondary) dispatches, one for each
\* queued binding
C26_ExecuteDispatchesOnceKeepsQueues ==
    [][(event' = "x2" /\ menu_active) =>
          LET np == Len(primary_queue)
              ns == Len(secondary_queue)
          IN /\ primary_queue' = primary_queue
             /\ secondary_queue' = secondary_queue
             /\ Len(executed') <= np + ns
             /\ ~crashed' =>
                   /\ Len(executed') = np + ns
                   /\ \A i \in 1..np : executed'[i] = primary_queue[i]
                   /\ \A j \in 1..ns : executed'[np + j] = secondary_queue[j]]_vars

\* a batch of one primary and two secondary bindings was dispatched and
\* the queues still hold them
C26_Witness ==
    /\ event = "x2"
    /\ ~crashed
    /\ ~menu_active
    /\ Len(primary_queue) = 1
    /\ Len(secondary_queue) = 2
    /\ Len(executed) = Len(primary_queue) + Len(secondary_queue)

\* C27: a left or right click changes a queue only if the menu is open at
\* the moment of the change, however the callbacks of the two listeners
\* interleave
C27_QueueModifiedOnlyWhileOpen ==
    [][(event' \in {"left", "right"} /\ Queues' # Queues) => menu_active]_vars

\* the input events other than the trigger
NonTriggerInputs ==
    {"left", "right", "x1", "x2", "scroll_up", "scroll_down", "scroll_flat",
     "esc"}

\* C28: an input event other than the trigger that arrives while the menu
\* is closed leaves both queues, the menu-open flag, the last-click
\* timestamp, the settings-open flag and the focus index as they were; a
\* left click is then not the preceding click of a later one
C28_ClosedMenuIgnoresInputs ==
    [][(~menu_active /\ handling = "none" /\ event' \in NonTriggerInputs) =>
          /\ primary_queue' = primary_queue
          /\ secondary_queue' = secondary_queue
          /\ menu_active' = menu_active
          /\ last_left_click' = last_left_click
          /\ settings_open' = settings_open
          /\ focus_index' = focus_index
          /\ prev_left_at' = prev_left_at]_vars

\* a left click on the closed menu, later than the last click counted,
\* with a binding queued and the focus moved
C28_Witness ==
    /\ event = "left"
    /\ ~menu_active
    /\ ~crashed
    /\ primary_queue # <<>>
    /\ StartClock <= last_left_click
    /\ last_left_click < clock
    /\ focus_index > 0

\* C30: whenever no open or close is in progress the overlay's visible
\* flag equals the engine's menu-open flag (inside the first open the
\* overlay's flag is set before the engine's)
C30_VisibleEqualsMenuActive ==
    ~opening => (visible = menu_active)

\* the overlay's cancel event has closed a menu that was opened, used and
\* whose surface exists
C30_Witness ==
    /\ event = "cancel"
    /\ ~opening
    /\ ~crashed
    /\ root
    /\ ~visible
    /\ ~menu_active
    /\ primary_queue # <<>>
    /\ secondary_queue # <<>>

\* C29: with the mode not edited, a left click on the open menu, after any
\* scrolls, finds the focus index at (forward scrolls - backward scrolls)
\* mod N since the open and appends exactly the binding of the displayed
\* item at that index; on no items it appends nothing
C29_ClickAppendsItemAtNetScroll ==
    [][(event' = "left" /\ menu_active) =>
          IF items = <<>>
          THEN Queues' = Queues
          ELSE LET displayed == items[(scrolled % Len(items)) + 1]
               IN /\ focus_index = scrolled % Len(items)
                  /\ \/ /\ primary_queue' = Append(primary_queue, displayed.binding)
                        /\ secondary_queue' = secondary_queue
                     \/ /\ secondary_queue' = Append(secondary_queue, displayed.binding)
                        /\ primary_queue' = primary_queue]_vars

\* after four scrolls backward on three items, two bindings apart, the
\* click appended the last item's binding
C29_Witness ==
    /\ event = "left"
    /\ menu_active
    /\ Len(items) = 3
    /\ scrolled = -4
    /\ focus_index = 2
    /\ items[1].binding # items[3].binding
    /\ primary_queue = <<items[3].binding>>

\* C31: a trigger on the closed menu with no mode configured ends with the
\* configuration error and changes nothing: the menu stays closed, the
\* overlay is not opened (its items, focus index and visible flag are as
\* before and nothing is scheduled on its surface), both queues and the
\* last-click timestamp keep their values and no action is dispatched
C31_TriggerWithoutModeFailsUnchanged ==
    [][(event' = "middle" /\ ~menu_active /\ NoModes) =>
          /\ crashed'
          /\ ~menu_active'
          /\ ~visible'
          /\ Queues' = Queues
          /\ executed' = <<>>
          /\ UNCHANGED <<modes, last_left_click, overlay_vars, surface_vars,
                         settings_open>>]_vars

\* the trigger failed after a settings session deleted the only mode: the
\* menu that had been opened and used is closed, its binding still queued
C31_Witness ==
    /\ event = "middle"
    /\ crashed
    /\ NoModes
    /\ ~menu_active
    /\ ~visible
    /\ root
    /\ ~settings_open
    /\ items # <<>>
    /\ Len(primary_queue) + Len(secondary_queue) > 0
====
